---- MODULE Spec2Model ----
(***************************************************************************)
(* A model of FileOrganizer (file_organizer.py): one organizer instance    *)
(* working on one target directory.  File names are sequences of           *)
(* one-character strings, so that Path.suffix, Path.stem, str.lower and    *)
(* the "stem_k.ext" conflict names are computed as the code computes them. *)
(* The directory tree has two levels: the direct children of the target    *)
(* directory (path <<name>>) and the entries of the category directories   *)
(* (path <<category, name>>).  A regular file carries an identity (a       *)
(* number standing for its content), so that a lost or overwritten file    *)
(* can be told from a restored one.                                        *)
(***************************************************************************)
EXTENDS Integers, Sequences, FiniteSets, TLC

(* ------------------------------ bounds -------------------------------- *)

\* number of events over a run that make the state grow: a file the user
\* drops into the target directory, or a batch that writes a log entry
MaxEvents == 3

(* ------------------------- text of file names ------------------------- *)

UpperChars ==
  <<"A","B","C","D","E","F","G","H","I","J","K","L","M",
    "N","O","P","Q","R","S","T","U","V","W","X","Y","Z">>

LowerChars ==
  <<"a","b","c","d","e","f","g","h","i","j","k","l","m",
    "n","o","p","q","r","s","t","u","v","w","x","y","z">>

DigitChars == <<"0","1","2","3","4","5","6","7","8","9">>

\* the lower-case letter of every upper-case letter
lower_table ==
  [c \in {UpperChars[i] : i \in 1..Len(UpperChars)} |->
     LowerChars[CHOOSE i \in 1..Len(UpperChars) : UpperChars[i] = c]]

\* str.lower() on one character
lower_char(c) == IF c \in DOMAIN lower_table THEN lower_table[c] ELSE c

\* str.lower()
lower(s) == [i \in 1..Len(s) |-> lower_char(s[i])]

\* str(counter) for a natural number: its decimal digits
RECURSIVE str(_)
str(n) ==
  IF n < 10 THEN <<DigitChars[n + 1]>>
  ELSE str(n \div 10) \o <<DigitChars[(n % 10) + 1]>>

\* name.rfind('.') as a 1-based position, 0 when there is no dot
rfind_dot(name) ==
  LET dots == {i \in 1..Len(name) : name[i] = "."}
  IN  IF dots = {} THEN 0 ELSE CHOOSE i \in dots : \A j \in dots : j <= i

\* Path.suffix: the text from the last dot, unless that dot is the first or
\* the last character of the name
suffix(name) ==
  LET i == rfind_dot(name)
  IN  IF 1 < i /\ i < Len(name) THEN SubSeq(name, i, Len(name)) ELSE <<>>

\* Path.stem: the name without its suffix
stem(name) ==
  LET i == rfind_dot(name)
  IN  IF 1 < i /\ i < Len(name) THEN SubSeq(name, 1, i - 1) ELSE name

(* --------------------------- category maps ---------------------------- *)

\* self.default_categories, in insertion order
default_categories ==
  <<
     [name |-> <<"I","m","a","g","e","s">>,
      extensions |-> <<<<".","j","p","g">>,
                       <<".","j","p","e","g">>,
                       <<".","p","n","g">>,
                       <<".","g","i","f">>,
                       <<".","b","m","p">>,
                       <<".","s","v","g">>,
                       <<".","i","c","o">>,
                       <<".","t","i","f","f">>,
                       <<".","w","e","b","p">>>>],
     [name |-> <<"D","o","c","u","m","e","n","t","s">>,
      extensions |-> <<<<".","p","d","f">>,
                       <<".","d","o","c">>,
                       <<".","d","o","c","x">>,
                       <<".","t","x","t">>,
                       <<".","r","t","f">>,
                       <<".","o","d","t">>,
                       <<".","p","a","g","e","s">>,
                       <<".","t","e","x">>>>],
     [name |-> <<"S","p","r","e","a","d","s","h","e","e","t","s">>,
      extensions |-> <<<<".","x","l","s">>,
                       <<".","x","l","s","x">>,
                       <<".","c","s","v">>,
                       <<".","o","d","s">>,
                       <<".","n","u","m","b","e","r","s">>>>],
     [name |-> <<"P","r","e","s","e","n","t","a","t","i","o","n","s">>,
      extensions |-> <<<<".","p","p","t">>,
                       <<".","p","p","t","x">>,
                       <<".","o","d","p">>,
                       <<".","k","e","y">>>>],
     [name |-> <<"V","i","d","e","o","s">>,
      extensions |-> <<<<".","m","p","4">>,
                       <<".","a","v","i">>,
                       <<".","m","k","v">>,
                       <<".","m","o","v">>,
                       <<".","w","m","v">>,
                       <<".","f","l","v">>,
                       <<".","w","e","b","m">>,
                       <<".","m","4","v">>>>],
     [name |-> <<"A","u","d","i","o">>,
      extensions |-> <<<<".","m","p","3">>,
                       <<".","w","a","v">>,
                       <<".","f","l","a","c">>,
                       <<".","a","a","c">>,
                       <<".","o","g","g">>,
                       <<".","w","m","a">>,
                       <<".","m","4","a">>>>],
     [name |-> <<"A","r","c","h","i","v","e","s">>,
      extensions |-> <<<<".","z","i","p">>,
                       <<".","r","a","r">>,
                       <<".","7","z">>,
                       <<".","t","a","r">>,
                       <<".","g","z">>,
                       <<".","b","z","2">>,
                       <<".","x","z">>>>],
     [name |-> <<"C","o","d","e">>,
      extensions |-> <<<<".","p","y">>,
                       <<".","j","s">>,
                       <<".","h","t","m","l">>,
                       <<".","c","s","s">>,
                       <<".","c","p","p">>,
                       <<".","j","a","v","a">>,
                       <<".","c">>,
                       <<".","h">>,
                       <<".","p","h","p">>,
                       <<".","r","b">>>>],
     [name |-> <<"E","x","e","c","u","t","a","b","l","e","s">>,
      extensions |-> <<<<".","e","x","e">>,
                       <<".","m","s","i">>,
                       <<".","d","m","g">>,
                       <<".","p","k","g">>,
                       <<".","d","e","b">>,
                       <<".","r","p","m">>,
                       <<".","a","p","p","i","m","a","g","e">>>>]
  >>

\* a category map read from organizer_config.json: upper-case extensions
\* and an extension listed in two categories
custom_categories ==
  <<
     [name |-> <<"I","m","a","g","e","s">>,
      extensions |-> <<<<".","J","P","G">>,
                       <<".","p","n","g">>>>],
     [name |-> <<"M","i","s","c">>,
      extensions |-> <<<<".","t","x","t">>,
                       <<".","j","p","g">>>>]
  >>

\* a mapping whose values are strings, not lists: {"Images": ".jpg",
\* "Misc": ".txt"}.  Python iterates a string character by character, so
\* get_file_category reads each value as the list of its characters.
string_valued_categories ==
  <<
     [name |-> <<"I","m","a","g","e","s">>,
      extensions |-> <<<<".">>, <<"j">>, <<"p">>, <<"g">>>>],
     [name |-> <<"M","i","s","c">>,
      extensions |-> <<<<".">>, <<"t">>, <<"x">>, <<"t">>>>]
  >>

\* what organizer_config.json may hold when the organizer is constructed
\*   kind         "absent": there is no such file
\*                "undecodable": its bytes are not text in the encoding
\*                "unparseable": its text is not JSON (also an empty file)
\*                "json": its text is a JSON object
\*   value        the object json.load returns
\*   value_lists  every value of the object is a list of strings
absent_config ==
  [kind |-> "absent", value |-> <<>>, value_lists |-> FALSE]
undecodable_config ==
  [kind |-> "undecodable", value |-> <<>>, value_lists |-> FALSE]
unparseable_config ==
  [kind |-> "unparseable", value |-> <<>>, value_lists |-> FALSE]
custom_config ==
  [kind |-> "json", value |-> custom_categories, value_lists |-> TRUE]
empty_map_config ==
  [kind |-> "json", value |-> <<>>, value_lists |-> TRUE]
saved_default_config ==
  [kind |-> "json", value |-> default_categories, value_lists |-> TRUE]
string_valued_config ==
  [kind |-> "json", value |-> string_valued_categories, value_lists |-> FALSE]

config_files ==
  {absent_config, undecodable_config, unparseable_config, custom_config,
   empty_map_config, saved_default_config, string_valued_config}

\* the configuration files that hold a category map, or are absent
well_formed_configs == {absent_config, custom_config}

\* json.load(f) on an existing configuration file
json_load(config) ==
  IF config.kind = "undecodable"
  THEN [raised |-> "UnicodeDecodeError", value |-> <<>>]
  ELSE IF config.kind = "unparseable"
       THEN [raised |-> "JSONDecodeError", value |-> <<>>]
       ELSE [raised |-> "none", value |-> config.value]

\* load_config(): the object read from the configuration file, the
\* defaults when there is no file or json.load raises JSONDecodeError; any
\* other exception leaves load_config and, with it, __init__
load_config(config) ==
  IF config.kind # "absent"
  THEN LET loaded == json_load(config)
       IN  IF loaded.raised = "none"
           THEN [raised |-> "none", categories |-> loaded.value]
           ELSE IF loaded.raised = "JSONDecodeError"
                THEN [raised |-> "none", categories |-> default_categories]
                ELSE [raised |-> loaded.raised, categories |-> <<>>]
  ELSE [raised |-> "none", categories |-> default_categories]

\* the value get_file_category returns for "no category"
None == <<>>

\* ext.lower() for every extension of the category maps
lower_extension ==
  [ext \in UNION {{cats[i].extensions[j] : j \in 1..Len(cats[i].extensions)} :
                    <<cats, i>> \in {<<c, k>> \in {load_config(f).categories : f \in config_files}
                                                 \X (1..12) : k <= Len(c)}}
     |-> lower(ext)]

\* the for loop of get_file_category: the first category, in insertion
\* order, whose lower-cased extension list holds file_ext
RECURSIVE category_from(_, _, _)
category_from(file_ext, cats, i) ==
  IF i > Len(cats) THEN None
  ELSE IF \E j \in 1..Len(cats[i].extensions) :
            lower_extension[cats[i].extensions[j]] = file_ext
       THEN cats[i].name
       ELSE category_from(file_ext, cats, i + 1)

\* get_file_category comparing the suffix as it is written
get_file_category_case_sensitive(name, cats) == category_from(suffix(name), cats, 1)

\* get_file_category
get_file_category(name, cats) == category_from(lower(suffix(name)), cats, 1)

(* -------------------------- names and paths --------------------------- *)

\* self.config_file.name and self.log_file.name
config_file_name == <<"o","r","g","a","n","i","z","e","r","_","c","o","n","f","i","g",".","j","s","o","n">>
log_file_name == <<"o","r","g","a","n","i","z","e","r","_","l","o","g",".","t","x","t">>

\* skip_files of organize_files
skip_files ==
  {config_file_name, log_file_name,
   <<"d","e","s","k","t","o","p",".","i","n","i">>,
   <<"t","h","u","m","b","s",".","d","b">>,
   <<".","d","s","_","s","t","o","r","e">>}

\* names of the files a user drops into the target directory
a_jpg == <<"a",".","j","p","g">>
b_TXT == <<"b",".","T","X","T">>
notes == <<"n","o","t","e","s">>
x_dat == <<"x",".","d","a","t">>
Images == <<"I","m","a","g","e","s">>

TopNames == {a_jpg, b_TXT, Images}

\* a path below the target directory: <<name>> or <<category, name>>
parent(path) == SubSeq(path, 1, Len(path) - 1)
basename(path) == path[Len(path)]

\* the part of the program's state the file operations read and write
\*   files        regular files: path -> identity of the content
\*   dirs         the directories below the target directory
\*   moved_files  self.moved_files, pairs <<source, destination>>
\*   errors       self.errors
\*   stats        the dictionary organize_files returns
exists(s, path) == path \in DOMAIN s.files \/ path \in s.dirs
is_file(s, path) == path \in DOMAIN s.files
is_dir(s, path) == path = <<>> \/ path \in s.dirs

\* the entries of a directory
iterdir(s, dir) ==
  {p \in (DOMAIN s.files) \cup s.dirs : Len(p) = Len(dir) + 1 /\ parent(p) = dir}

\* remove one file of a function path -> identity
drop(files, path) == [p \in (DOMAIN files) \ {path} |-> files[p]]

\* add or replace one file
put(files, path, id) ==
  [p \in (DOMAIN files) \cup {path} |-> IF p = path THEN id ELSE files[p]]

(* --------------------------- file operations -------------------------- *)

\* shutil.move(src, dst) for a regular file src.  env_fails stands for a
\* failure of the operating system (permissions, disk full, file in use),
\* which leaves both paths as they were.
shutil_move(s, src, dst, env_fails) ==
  LET real_dst == IF dst \in s.dirs THEN dst \o <<basename(src)>> ELSE dst
      raises ==
        \/ env_fails
        \/ ~is_file(s, src)
        \/ (dst \in s.dirs /\ exists(s, real_dst))
        \/ ~is_dir(s, parent(real_dst))
  IN  IF raises
      THEN [ok |-> FALSE, s |-> s]
      ELSE [ok |-> TRUE,
            s |-> [s EXCEPT !.files = put(drop(s.files, src), real_dst, s.files[src])]]

\* an entry of self.errors
create_error(dir_path) == [op |-> "create_directory", source |-> dir_path, destination |-> dir_path]
move_error(source, destination) == [op |-> "move", source |-> source, destination |-> destination]

\* create_directory: mkdir(parents=True, exist_ok=True) succeeds on an
\* existing directory and raises when a regular file has that name
create_directory(s, dir_path) ==
  IF dir_path \in s.dirs
  THEN [ok |-> TRUE, s |-> s]
  ELSE IF is_file(s, dir_path)
       THEN [ok |-> FALSE,
             s |-> [s EXCEPT !.errors = Append(@, create_error(dir_path))]]
       ELSE [ok |-> TRUE, s |-> [s EXCEPT !.dirs = @ \cup {dir_path}]]

\* the name tried after `counter - 1` conflicts
new_name(name_parts, counter) ==
  name_parts[1] \o <<"_">> \o str(counter) \o name_parts[2]

\* the while loop of move_file: the first of destination, stem_1.ext,
\* stem_2.ext, ... that does not exist
RECURSIVE conflict_loop(_, _, _, _)
conflict_loop(s, name_parts, destination, counter) ==
  IF exists(s, destination)
  THEN conflict_loop(s, name_parts,
                     parent(destination) \o <<new_name(name_parts, counter)>>,
                     counter + 1)
  ELSE destination

\* move_file without its conflict handling
resolve_unchecked(s, destination) == destination

\* the destination move_file moves to
resolve(s, destination) ==
  conflict_loop(s, <<stem(basename(destination)), suffix(basename(destination))>>,
                destination, 1)

\* move_file journaling the move before it is known to have succeeded
move_file_journal_first(s, source, destination, env_fails) ==
  LET final == resolve(s, destination)
      moved == shutil_move(s, source, final, env_fails)
  IN  IF moved.ok
      THEN [ok |-> TRUE,
            s |-> [moved.s EXCEPT !.moved_files = Append(@, <<source, final>>)]]
      ELSE [ok |-> FALSE,
            s |-> [s EXCEPT !.moved_files = Append(@, <<source, final>>),
                            !.errors = Append(@, move_error(source, final))]]

\* move_file
move_file(s, source, destination, env_fails) ==
  LET final == resolve(s, destination)
      moved == shutil_move(s, source, final, env_fails)
  IN  IF moved.ok
      THEN [ok |-> TRUE,
            s |-> [moved.s EXCEPT !.moved_files = Append(@, <<source, final>>)]]
      ELSE [ok |-> FALSE,
            s |-> [s EXCEPT !.errors = Append(@, move_error(source, final))]]

(* ----------------------------- organize ------------------------------- *)

bump(s, key) == [s EXCEPT !.stats[key] = @ + 1]

\* organize_one creating the category directory in a dry run too
organize_one_dry_run_mkdir(s, name, cats, dry_run, mv_fail) ==
  LET category == get_file_category(name, cats)
      category_dir == <<category>>
      made == create_directory(s, category_dir)
      destination == category_dir \o <<name>>
      moved == move_file(made.s, <<name>>, destination, name \in mv_fail)
  IN  IF category = None THEN bump(s, "skipped")
      ELSE IF ~made.ok THEN bump(made.s, "errors")
      ELSE IF dry_run THEN made.s
      ELSE IF moved.ok THEN bump(moved.s, "moved")
      ELSE bump(moved.s, "errors")

\* organize_one counting the files a dry run would move as moved
organize_one_dry_run_counts(s, name, cats, dry_run, mv_fail) ==
  LET category == get_file_category(name, cats)
      category_dir == <<category>>
      made == create_directory(s, category_dir)
      destination == category_dir \o <<name>>
      moved == move_file(made.s, <<name>>, destination, name \in mv_fail)
  IN  IF category = None THEN bump(s, "skipped")
      ELSE IF dry_run THEN bump(s, "moved")
      ELSE IF ~made.ok THEN bump(made.s, "errors")
      ELSE IF moved.ok THEN bump(moved.s, "moved")
      ELSE bump(moved.s, "errors")

\* organize_one giving up on the rest of the batch after the first error
organize_one_stop_on_error(s, name, cats, dry_run, mv_fail) ==
  LET category == get_file_category(name, cats)
      category_dir == <<category>>
      made == create_directory(s, category_dir)
      destination == category_dir \o <<name>>
      moved == move_file(made.s, <<name>>, destination, name \in mv_fail)
  IN  IF s.stats.errors > 0 THEN s
      ELSE IF category = None THEN bump(s, "skipped")
      ELSE IF dry_run THEN s
      ELSE IF ~made.ok THEN bump(made.s, "errors")
      ELSE IF moved.ok THEN bump(moved.s, "moved")
      ELSE bump(moved.s, "errors")

\* organize_one not counting a file whose directory cannot be created
organize_one_uncounted_error(s, name, cats, dry_run, mv_fail) ==
  LET category == get_file_category(name, cats)
      category_dir == <<category>>
      made == create_directory(s, category_dir)
      destination == category_dir \o <<name>>
      moved == move_file(made.s, <<name>>, destination, name \in mv_fail)
  IN  IF category = None THEN bump(s, "skipped")
      ELSE IF dry_run THEN s
      ELSE IF ~made.ok THEN made.s
      ELSE IF moved.ok THEN bump(moved.s, "moved")
      ELSE bump(moved.s, "errors")

\* the body of the for loop of organize_files, for one file
organize_one(s, name, cats, dry_run, mv_fail) ==
  LET category == get_file_category(name, cats)
      category_dir == <<category>>
      made == create_directory(s, category_dir)
      destination == category_dir \o <<name>>
      moved == move_file(made.s, <<name>>, destination, name \in mv_fail)
  IN  IF category = None THEN bump(s, "skipped")
      ELSE IF dry_run THEN s
      ELSE IF ~made.ok THEN bump(made.s, "errors")
      ELSE IF moved.ok THEN bump(moved.s, "moved")
      ELSE bump(moved.s, "errors")

\* the body of the for loop cut short inside move_file, when shutil.move at
\* line 104 has returned and line 105 has not run yet; reached tells
\* whether the file gets that far
organize_one_cut(s, name, cats, mv_fail) ==
  LET category == get_file_category(name, cats)
      category_dir == <<category>>
      made == create_directory(s, category_dir)
      final == resolve(made.s, category_dir \o <<name>>)
      moved == shutil_move(made.s, <<name>>, final, name \in mv_fail)
  IN  IF category # None /\ made.ok /\ moved.ok
      THEN [reached |-> TRUE, s |-> moved.s]
      ELSE [reached |-> FALSE, s |-> s]

\* the for loop of organize_files over the listed files
RECURSIVE organize_loop(_, _, _, _, _)
organize_loop(s, listing, cats, dry_run, mv_fail) ==
  IF listing = <<>> THEN s
  ELSE organize_loop(organize_one(s, Head(listing), cats, dry_run, mv_fail),
                     Tail(listing), cats, dry_run, mv_fail)

\* the files organize_files works on, were directories listed as well
eligible_with_directories(s) ==
  {p[1] : p \in {q \in (DOMAIN s.files) \cup s.dirs :
                    Len(q) = 1 /\ lower(q[1]) \notin skip_files}}

\* the files organize_files works on, were the names compared as written
eligible_case_sensitive(s) ==
  {p[1] : p \in {q \in DOMAIN s.files : Len(q) = 1 /\ q[1] \notin skip_files}}

\* the files organize_files works on: the regular files directly in the
\* target directory whose lower-cased name is not reserved
eligible(s) ==
  {p[1] : p \in {q \in DOMAIN s.files : Len(q) = 1 /\ lower(q[1]) \notin skip_files}}

\* the orders in which iterdir() may list a set of names
orderings(names) ==
  {l \in [1..Cardinality(names) -> names] :
     \A i, j \in 1..Cardinality(names) : i # j => l[i] # l[j]}

\* the entry log_operation appends to the log file
log_entry(s) ==
  [files_moved |-> Len(s.moved_files),
   moved |-> [i \in 1..Len(s.moved_files) |->
                <<basename(s.moved_files[i][1]), s.moved_files[i][2]>>],
   errors |-> s.errors]

(* ------------------------------- undo --------------------------------- *)

\* what undo_last_operation prints for one entry: "Restored: ..." (ok) or
\* "Failed to restore ..."
restore_line(entry, ok) == [source |-> entry[1], destination |-> entry[2], ok |-> ok]

\* the for loop of undo_last_operation giving up at the first failure
RECURSIVE undo_loop_stop_on_failure(_, _, _)
undo_loop_stop_on_failure(u, journal, i) ==
  IF i = 0 THEN u
  ELSE LET moved == shutil_move(u.s, journal[i][2], journal[i][1], FALSE)
       IN  IF moved.ok
           THEN undo_loop_stop_on_failure(
                  [s |-> moved.s, successful_undos |-> u.successful_undos + 1,
                   restores |-> Append(u.restores, restore_line(journal[i], TRUE))],
                  journal, i - 1)
           ELSE [u EXCEPT !.restores = Append(@, restore_line(journal[i], FALSE))]

\* the for loop of undo_last_operation, from entry i down to the first;
\* u.s is the state of the files, u.successful_undos the counter and
\* u.restores the lines printed so far
RECURSIVE undo_loop(_, _, _)
undo_loop(u, journal, i) ==
  IF i = 0 THEN u
  ELSE LET moved == shutil_move(u.s, journal[i][2], journal[i][1], FALSE)
       IN  undo_loop(IF moved.ok
                     THEN [s |-> moved.s, successful_undos |-> u.successful_undos + 1,
                           restores |-> Append(u.restores, restore_line(journal[i], TRUE))]
                     ELSE [u EXCEPT !.restores =
                             Append(@, restore_line(journal[i], FALSE))],
                     journal, i - 1)

(* ------------------------------ cleanup ------------------------------- *)

\* clean_loop removing every category directory, empty or not
RECURSIVE clean_loop_any(_, _, _)
clean_loop_any(s, cats, i) ==
  IF i > Len(cats) THEN s
  ELSE clean_loop_any([s EXCEPT !.dirs = @ \ {<<cats[i].name>>}], cats, i + 1)

\* the for loop of clean_empty_directories
RECURSIVE clean_loop(_, _, _)
clean_loop(s, cats, i) ==
  IF i > Len(cats) THEN s
  ELSE LET category_dir == <<cats[i].name>>
       IN  clean_loop(IF category_dir \in s.dirs /\ iterdir(s, category_dir) = {}
                      THEN [s EXCEPT !.dirs = @ \ {category_dir}]
                      ELSE s,
                      cats, i + 1)

(* ------------------------------- state -------------------------------- *)

VARIABLES
  target_kind,   \* what self.target_directory is: "dir", "file" or "missing"
  config_file,   \* what organizer_config.json held at construction
  categories,    \* self.categories
  files,         \* the regular files below the target directory
  dirs,          \* the directories below the target directory
  moved_files,   \* self.moved_files, the undo journal
  errors,        \* self.errors
  log,           \* the entries of the log file, oldest first
  next_id,       \* the identity of the next file the user adds
  last           \* the operation that ended in this state, with what it
                 \* was given and what it returned

vars == <<target_kind, config_file, categories, files, dirs, moved_files, errors, log,
          next_id, last>>

no_files == [p \in {} |-> 0]
zero_stats == [moved |-> 0, skipped |-> 0, errors |-> 0]

\* the files the user has added and the log entries written so far
events == (next_id - 1) + Len(log)

\* the state the file operations work on
current ==
  [files |-> files, dirs |-> dirs, moved_files |-> moved_files,
   errors |-> errors, stats |-> zero_stats]

\* op                the operation: "init", "organize", "undo", "clean", "user"
\* dry_run           the argument of organize_files
\* result            "returned", or the exception raised
\* stats             the dictionary organize_files returned
\* mv_fail           the files whose move the operating system refused
\* attempted         the number of journal entries undo went through
\* successful_undos  the number undo_last_operation reports as restored
\* listing, handled  of an interrupted batch: the files as iterdir() listed
\*                   them, and how many of them the loop had handled
\* point             where the interruption hit: "between" two files, or
\*                   when the next file was "moved" and not yet journaled
\* restores          the lines undo_last_operation printed, entry by entry
\* removed           the directories clean_empty_directories reports removed
\* name, category    the argument and the result of get_file_category
no_op ==
  [op |-> "none", dry_run |-> FALSE, result |-> "none", stats |-> zero_stats,
   mv_fail |-> {}, attempted |-> 0, successful_undos |-> 0, restores |-> <<>>,
   removed |-> {}, listing |-> <<>>, handled |-> 0, point |-> "none",
   name |-> <<>>, category |-> <<>>]

\* the directory trees the organizer may be started on: a target directory
\* that is empty or holds a.jpg, or Images/a.jpg, or both.  Every file has
\* its own identity; those of the files the user adds later are 1, 2, ...
initial_trees ==
  {[files |-> [p \in paths |-> IF Len(p) = 1 THEN 101 ELSE 102],
    dirs |-> {parent(p) : p \in {q \in paths : Len(q) = 2}}] :
     paths \in SUBSET {<<a_jpg>>, <<Images, a_jpg>>}}

\* __init__
Init ==
  /\ target_kind \in {"dir", "file", "missing"}
  /\ config_file \in well_formed_configs
  /\ categories = load_config(config_file).categories
  /\ \E tree \in initial_trees :
       /\ target_kind # "dir" => (tree.dirs = {} /\ DOMAIN tree.files = {})
       /\ files = tree.files
       /\ dirs = tree.dirs
  /\ moved_files = <<>>
  /\ errors = <<>>
  /\ log = <<>>
  /\ next_id = 1
  /\ last = no_op

(* ------------------------------ actions ------------------------------- *)

\* organize_files on a target path that does not exist: line 113 raises
OrganizeMissing(dry_run) ==
  /\ target_kind = "missing"
  /\ last' = [no_op EXCEPT !.op = "organize", !.dry_run = dry_run,
                           !.result = "FileNotFoundError"]
  /\ UNCHANGED <<target_kind, config_file, categories, files, dirs, moved_files, errors,
                 log, next_id>>

\* organize_files on a target path that is a regular file: exists() holds,
\* and iterdir() at line 122 raises NotADirectoryError
OrganizeNotADirectory(dry_run) ==
  /\ target_kind = "file"
  /\ last' = [no_op EXCEPT !.op = "organize", !.dry_run = dry_run,
                           !.result = "NotADirectoryError"]
  /\ UNCHANGED <<target_kind, config_file, categories, files, dirs, moved_files, errors,
                 log, next_id>>

\* the listed files that have a category
classified(s, cats) == {n \in eligible(s) : get_file_category(n, cats) # None}

\* organize_files on a directory.  iterdir() lists the files in an order the
\* file system chooses; mv_fail are the files whose move the operating
\* system refuses (permissions, file in use, disk full).
OrganizeDirectory(dry_run) ==
  /\ target_kind = "dir"
  /\ dry_run \/ events < MaxEvents
  /\ \E listing \in orderings(eligible(current)) :
     \E mv_fail \in IF dry_run THEN {{}} ELSE SUBSET classified(current, categories) :
       LET s == organize_loop(current, listing, categories, dry_run, mv_fail)
       IN  /\ files' = s.files
           /\ dirs' = s.dirs
           /\ moved_files' = s.moved_files
           /\ errors' = s.errors
           /\ log' = IF ~dry_run /\ listing # <<>>
                     THEN Append(log, log_entry(s)) ELSE log
           /\ last' = [no_op EXCEPT !.op = "organize", !.dry_run = dry_run,
                                    !.result = "returned", !.stats = s.stats,
                                    !.mv_fail = mv_fail]
  /\ UNCHANGED <<target_kind, config_file, categories, next_id>>

\* organize_files(dry_run=False) on a directory, ended by an exception that
\* is not caught (KeyboardInterrupt) before the loop is through: after
\* `handled` files, either between two files or inside move_file between
\* lines 104 and 105.  log_operation is not reached.
OrganizeInterrupted ==
  /\ target_kind = "dir"
  /\ \E listing \in orderings(eligible(current)) :
     \E mv_fail \in SUBSET classified(current, categories) :
     \E handled \in 0..(Len(listing) - 1) :
     \E point \in {"between", "moved"} :
       LET before == organize_loop(current, SubSeq(listing, 1, handled),
                                   categories, FALSE, mv_fail)
           cut == organize_one_cut(before, listing[handled + 1], categories, mv_fail)
           s == IF point = "moved" THEN cut.s ELSE before
       IN  /\ point = "moved" => cut.reached
           /\ files' = s.files
           /\ dirs' = s.dirs
           /\ moved_files' = s.moved_files
           /\ errors' = s.errors
           /\ last' = [no_op EXCEPT !.op = "organize", !.dry_run = FALSE,
                                    !.result = "KeyboardInterrupt",
                                    !.mv_fail = mv_fail, !.listing = listing,
                                    !.handled = handled, !.point = point]
  /\ UNCHANGED <<target_kind, config_file, categories, log, next_id>>

organize_files(dry_run) ==
  \/ OrganizeMissing(dry_run)
  \/ OrganizeNotADirectory(dry_run)
  \/ OrganizeDirectory(dry_run)

Organize == \E dry_run \in BOOLEAN : organize_files(dry_run)

\* undo_last_operation clearing the journal only when every entry was restored
undo_result_keep_failed(s) ==
  IF s.moved_files = <<>>
  THEN [s |-> s, successful_undos |-> 0, restores |-> <<>>]
  ELSE LET u == undo_loop([s |-> s, successful_undos |-> 0, restores |-> <<>>],
                          s.moved_files, Len(s.moved_files))
       IN  [s |-> [u.s EXCEPT !.moved_files =
                     IF u.successful_undos = Len(s.moved_files) THEN <<>> ELSE @],
            successful_undos |-> u.successful_undos, restores |-> u.restores]

\* what undo_last_operation leaves: the files and the number it restored
undo_result(s) ==
  IF s.moved_files = <<>>
  THEN [s |-> s, successful_undos |-> 0, restores |-> <<>>]
  ELSE LET u == undo_loop([s |-> s, successful_undos |-> 0, restores |-> <<>>],
                          s.moved_files, Len(s.moved_files))
       IN  [s |-> [u.s EXCEPT !.moved_files = <<>>],
            successful_undos |-> u.successful_undos, restores |-> u.restores]

\* undo_last_operation
undo_last_operation ==
  /\ LET u == undo_result(current)
     IN  /\ files' = u.s.files
         /\ dirs' = u.s.dirs
         /\ moved_files' = u.s.moved_files
         /\ last' = [no_op EXCEPT !.op = "undo", !.result = "returned",
                                  !.attempted = Len(moved_files),
                                  !.successful_undos = u.successful_undos,
                                  !.restores = u.restores]
  /\ UNCHANGED <<target_kind, config_file, categories, errors, log, next_id>>

\* clean_empty_directories
clean_empty_directories ==
  /\ LET s == clean_loop(current, categories, 1)
     IN  /\ dirs' = s.dirs
         /\ last' = [no_op EXCEPT !.op = "clean", !.result = "returned",
                                  !.removed = dirs \ s.dirs]
  /\ UNCHANGED <<target_kind, config_file, categories, files, moved_files, errors, log, next_id>>

\* the user puts a new file into the target directory
UserAddsFile ==
  /\ target_kind = "dir"
  /\ events < MaxEvents
  /\ \E name \in TopNames :
       /\ ~exists(current, <<name>>)
       /\ files' = put(files, <<name>>, next_id)
  /\ next_id' = next_id + 1
  /\ last' = [no_op EXCEPT !.op = "user"]
  /\ UNCHANGED <<target_kind, config_file, categories, dirs, moved_files, errors, log>>

\* the user deletes a file the organizer has moved and could still restore
UserDeletesFile ==
  /\ \E i \in 1..Len(moved_files) :
       /\ moved_files[i][2] \in DOMAIN files
       /\ files' = drop(files, moved_files[i][2])
  /\ last' = [no_op EXCEPT !.op = "user"]
  /\ UNCHANGED <<target_kind, config_file, categories, dirs, moved_files, errors, log, next_id>>

Next ==
  \/ Organize
  \/ undo_last_operation
  \/ clean_empty_directories
  \/ UserAddsFile
  \/ UserDeletesFile

Spec == Init /\ [][Next]_vars

\* file names get_file_category is called on
SampleNames ==
  TopNames \cup
  {notes, x_dat,
   <<"A",".","J","P","G">>,
   <<".","j","p","g">>,
   <<"c",".","t","a","r",".","g","z">>,
   <<"d",".","T","x","t">>,
   <<"e",".","p","n","g">>,
   <<"f",".","j","p","g",".","b","a","k">>,
   <<"g",".","J","P","E","G">>,
   <<"h",".","P","n","G">>,
   <<"M","i","s","c">>,
   <<"i",".","t","x","t">>,
   <<"j",".","j">>}

\* a call of get_file_category on its own
Classify ==
  /\ \E n \in SampleNames :
       last' = [no_op EXCEPT !.op = "classify", !.result = "returned",
                            !.name = n,
                            !.category = get_file_category(n, categories)]
  /\ UNCHANGED <<target_kind, config_file, categories, files, dirs, moved_files, errors,
                 log, next_id>>

NextClassify == Classify

\* the organizer as constructed, and calls of get_file_category
SpecClassify == Init /\ [][NextClassify]_vars

\* names of directories that are no category of the default map
old_dir == <<"o","l","d">>
sub_dir == <<"s","u","b">>
Misc == <<"M","i","s","c">>

\* a directory tree is well formed when every entry lies in the target
\* directory or in a directory of the tree, and no path is both a file and
\* a directory
well_formed(file_paths, dir_paths) ==
  /\ file_paths \cap dir_paths = {}
  /\ \A p \in file_paths \cup dir_paths : Len(p) = 1 \/ parent(p) \in dir_paths

\* the directory trees clean_empty_directories is run on: category
\* directories that are empty, hold a file or hold a subdirectory, a file
\* named like a category, and a directory that is no category
clean_trees ==
  {[files |-> [p \in file_paths |-> 100 + Len(p)], dirs |-> dir_paths] :
     <<file_paths, dir_paths>> \in
       {t \in (SUBSET {<<a_jpg>>, <<Images>>, <<Images, a_jpg>>, <<old_dir, x_dat>>})
                \X (SUBSET {<<Images>>, <<Misc>>, <<Misc, sub_dir>>, <<old_dir>>}) :
          well_formed(t[1], t[2])}}

\* the organizer constructed on one of these trees
InitClean ==
  /\ target_kind = "dir"
  /\ config_file \in well_formed_configs
  /\ categories = load_config(config_file).categories
  /\ \E tree \in clean_trees : files = tree.files /\ dirs = tree.dirs
  /\ moved_files = <<>>
  /\ errors = <<>>
  /\ log = <<>>
  /\ next_id = 1
  /\ last = no_op

NextClean == clean_empty_directories

\* reserved names as a file system may hold them
Organizer_Log_TXT == <<"O","r","g","a","n","i","z","e","r","_","L","o","g",".","T","X","T">>
Thumbs_db == <<"T","h","u","m","b","s",".","d","b">>

\* the directory trees the reserved names are tried on: reserved names in
\* lower and in mixed case next to ordinary files, and a subdirectory that
\* is no category and holds a file with a category
reserved_trees ==
  {[files |-> [p \in file_paths |-> 100 + Len(p[Len(p)]) + 20 * Len(p)],
    dirs |-> {parent(p) : p \in {q \in file_paths : Len(q) = 2}}] :
     file_paths \in SUBSET {<<log_file_name>>, <<Organizer_Log_TXT>>, <<Thumbs_db>>,
                            <<b_TXT>>, <<notes>>, <<old_dir, b_TXT>>}}

\* the organizer constructed on one of these trees
InitReserved ==
  /\ target_kind \in {"dir", "file", "missing"}
  /\ config_file \in well_formed_configs
  /\ categories = load_config(config_file).categories
  /\ \E tree \in reserved_trees :
       /\ target_kind # "dir" => (tree.dirs = {} /\ DOMAIN tree.files = {})
       /\ files = tree.files
       /\ dirs = tree.dirs
  /\ moved_files = <<>>
  /\ errors = <<>>
  /\ log = <<>>
  /\ next_id = 1
  /\ last = no_op

NextReserved == Organize

\* batches on a directory that holds reserved names
SpecReserved == InitReserved /\ [][NextReserved]_vars

\* main ends the process when KeyboardInterrupt reaches it (line 256), so
\* an interrupted batch is the last thing an organizer does
running == ~(last.op = "organize" /\ last.result = "KeyboardInterrupt")

NextInterrupt ==
  \/ running /\ Organize
  \/ running /\ OrganizeInterrupted
  \/ running /\ UserAddsFile

\* batches that run to their end, files the user adds in between, and a
\* batch that is interrupted
SpecInterrupt == Init /\ [][NextInterrupt]_vars

\* __init__ on a target directory holding any of the configuration files;
\* when load_config raises, no organizer comes into being
InitConfig ==
  /\ target_kind = "dir"
  /\ config_file \in config_files
  /\ LET loaded == load_config(config_file)
     IN  /\ categories = loaded.categories
         /\ last = [no_op EXCEPT !.op = "init",
                                 !.result = IF loaded.raised = "none"
                                            THEN "returned" ELSE loaded.raised]
  /\ files = no_files
  /\ dirs = {}
  /\ moved_files = <<>>
  /\ errors = <<>>
  /\ log = <<>>
  /\ next_id = 1

\* a call of get_file_category on an organizer that was constructed
ClassifyLoaded ==
  /\ ~(last.op = "init" /\ last.result # "returned")
  /\ Classify

NextConfig == ClassifyLoaded

\* the organizer constructed on a configuration file, and calls of
\* get_file_category
SpecConfig == InitConfig /\ [][NextConfig]_vars

\* the organizer as constructed, and calls of clean_empty_directories
SpecClean == InitClean /\ [][NextClean]_vars

(* --------------------------- steps and sets --------------------------- *)

\* the step is a call of organize_files
OrganizeStep(dry_run) == last'.op = "organize" /\ last'.dry_run = dry_run

\* the step is a non-dry-run batch on a directory, which returned
RealBatchStep == OrganizeStep(FALSE) /\ last'.result = "returned"

\* the step is a call of undo_last_operation
UndoStep == last'.op = "undo"

\* the journal entries the step appended
appended_moves == SubSeq(moved_files', Len(moved_files) + 1, Len(moved_files'))

\* the error records the step appended
appended_errors == SubSeq(errors', Len(errors) + 1, Len(errors'))

\* the files of a batch whose category directory could not be created, and
\* those whose move was refused
mkdir_failed == {n \in classified(current, categories) :
                   is_file(current, <<get_file_category(n, categories)>>)}
move_failed == last'.mv_fail \ mkdir_failed

\* the files of a batch that nothing kept from being moved
movable == classified(current, categories) \ (mkdir_failed \cup move_failed)

(* ------------------------------- claims ------------------------------- *)

\* C1: after a non-dry-run batch that ended with zero errors, an undo that
\* follows at once puts every file the batch moved back at its original
\* path, and leaves every category directory the batch created empty.
C1_UndoRestoresBatch ==
  [][(RealBatchStep /\ last'.stats.errors = 0) =>
       LET u == undo_result(current')
       IN  /\ \A p \in DOMAIN files :
                 (p \notin DOMAIN files' \/ files'[p] # files[p]) =>
                 (p \in DOMAIN u.s.files /\ u.s.files[p] = files[p])
           /\ \A d \in dirs' \ dirs : iterdir(u.s, d) = {}]_vars

\* C2: a dry-run organize_files call leaves the files, the directories, the
\* log file, the journal and the error list as they were.
C2_DryRunChangesNothing ==
  [][OrganizeStep(TRUE) =>
       /\ files' = files
       /\ dirs' = dirs
       /\ log' = log
       /\ moved_files' = moved_files
       /\ errors' = errors]_vars

\* a dry run has returned, and there was a file it would have moved into a
\* category directory that does not exist
C2_Witness ==
  /\ last.op = "organize" /\ last.dry_run /\ last.result = "returned"
  /\ \E n \in classified(current, categories) :
       <<get_file_category(n, categories)>> \notin dirs

\* the statistics a non-dry-run batch returns from the current state when it
\* lists the files in the given order and no move is refused
real_stats(listing) == organize_loop(current, listing, categories, FALSE, {}).stats

\* C3 as stated: a dry run returns the statistics (moved, skipped, errors) a
\* real run returns from the same state when nothing fails.
C3_DryRunSameStats ==
  [][(OrganizeStep(TRUE) /\ last'.result = "returned") =>
       \A listing \in orderings(eligible(current)) :
          LET real == real_stats(listing)
          IN  real.errors = 0 => last'.stats = real]_vars

\* C3 as amended: a dry run returns the skipped and the errors count a real
\* run returns from the same state when nothing fails, and moved = 0, while
\* the real run's moved count is the number of files that have a category.
C3_DryRunSameSkipped ==
  [][(OrganizeStep(TRUE) /\ last'.result = "returned") =>
       \A listing \in orderings(eligible(current)) :
          LET real == real_stats(listing)
          IN  real.errors = 0 =>
                /\ last'.stats.skipped = real.skipped
                /\ last'.stats.errors = real.errors
                /\ last'.stats.moved = 0
                /\ real.moved = Cardinality(classified(current, categories))]_vars

\* a dry run has returned on a directory holding a file that has a category
\* and a file that has none, and a real run would not fail there
C3_Witness ==
  /\ last.op = "organize" /\ last.dry_run /\ last.result = "returned"
  /\ last.stats.skipped > 0
  /\ classified(current, categories) # {}
  /\ \A listing \in orderings(eligible(current)) : real_stats(listing).errors = 0

\* C4: when a non-dry-run batch has returned, the journal holds the records
\* of the files that batch moved and none of an earlier batch.
C4_JournalOfLastBatchOnly ==
  (last.op = "organize" /\ ~last.dry_run /\ last.result = "returned") =>
    Len(moved_files) = last.stats.moved

\* the name the conflict handling gives a file after k conflicts
candidate(name, k) ==
  IF k = 0 THEN name ELSE stem(name) \o <<"_">> \o str(k) \o suffix(name)

\* C5: a file is moved to a path that did not exist: to category/name if
\* that is free, else to category/stem_k.ext for the smallest k >= 1 that is
\* free, and no file already in a category directory is overwritten.
C5_ConflictResolution ==
  [][RealBatchStep =>
       /\ \A i \in 1..Len(appended_moves) :
            LET source == appended_moves[i][1]
                final == appended_moves[i][2]
                category_dir == <<get_file_category(basename(source), categories)>>
            IN  /\ ~exists(current, final)
                /\ final \in DOMAIN files' /\ files'[final] = files[source]
                /\ \E k \in 0..Cardinality(DOMAIN files') :
                     /\ final = category_dir \o <<candidate(basename(source), k)>>
                     /\ \A j \in 0..(k - 1) :
                          LET taken == category_dir \o <<candidate(basename(source), j)>>
                          IN  exists(current', taken) /\ taken # final
       /\ \A p \in DOMAIN files :
            Len(p) = 2 => (p \in DOMAIN files' /\ files'[p] = files[p])]_vars

\* a batch has moved a.jpg to Images/a_2.jpg, a.jpg and a_1.jpg being taken
C5_Witness ==
  /\ last.op = "organize" /\ ~last.dry_run
  /\ \E i \in 1..Len(moved_files) :
       moved_files[i] = <<<<a_jpg>>, <<Images, <<"a","_","2",".","j","p","g">>>>>>
  /\ <<Images, a_jpg>> \in DOMAIN files
  /\ <<Images, <<"a","_","1",".","j","p","g">>>> \in DOMAIN files

\* category i of the map lists the extension, compared in lower case
lists(cats, i, ext) ==
  \E j \in 1..Len(cats[i].extensions) : lower(cats[i].extensions[j]) = lower(ext)

\* C6: get_file_category returns the first category, in insertion order,
\* that lists the file's extension compared in lower case, and None exactly
\* when no category lists it, as for every name with an empty extension.
C6_FirstMatchCaseInsensitive ==
  last.op = "classify" =>
    LET hits == {i \in 1..Len(categories) : lists(categories, i, suffix(last.name))}
    IN  /\ last.category = None <=> hits = {}
        /\ hits # {} =>
             \E i \in hits : /\ last.category = categories[i].name
                             /\ \A k \in hits : i <= k
        /\ suffix(last.name) = <<>> => last.category = None

\* under the map that lists .JPG in Images and .jpg in Misc, A.JPG has been
\* classified as Images
C6_Witness ==
  /\ categories = custom_categories
  /\ last.op = "classify"
  /\ last.name = <<"A",".","J","P","G">>
  /\ last.category = Images
  /\ Cardinality({i \in 1..Len(categories) : lists(categories, i, suffix(last.name))}) = 2

\* C7: in a non-dry-run batch a failure for one file does not keep the others
\* from being processed: every listed file is counted once, every file with
\* a category whose directory exists and whose move is not refused is moved
\* and journaled, and the batch returns its statistics.
C7_FailuresIsolated ==
  [][OrganizeStep(FALSE) /\ target_kind = "dir" =>
       LET done == movable
           new_moves == appended_moves
       IN  /\ last'.result = "returned"
           /\ last'.stats.moved + last'.stats.skipped + last'.stats.errors
                = Cardinality(eligible(current))
           /\ last'.stats.moved = Cardinality(done)
           /\ \A n \in done :
                /\ <<n>> \notin DOMAIN files'
                /\ \E i \in 1..Len(new_moves) :
                     /\ new_moves[i][1] = <<n>>
                     /\ parent(new_moves[i][2]) = <<get_file_category(n, categories)>>
                     /\ files'[new_moves[i][2]] = files[<<n>>]]_vars

\* a batch in which the directory Images could not be created, a file named
\* Images being in the way, so that a.jpg stayed, while b.TXT was moved
C7_Witness ==
  /\ last.op = "organize" /\ ~last.dry_run /\ last.result = "returned"
  /\ last.mv_fail = {}
  /\ last.stats.errors > 0
  /\ last.stats.moved > 0
  /\ {<<Images>>, <<a_jpg>>} \subseteq DOMAIN files
  /\ moved_files # <<>>
  /\ moved_files[Len(moved_files)][1] = <<b_TXT>>

\* C8: a file for which create_directory or move_file fails stays at its
\* path, gets no journal record and one error record, and counts as an
\* error; a file that is moved gets one journal record and no error record.
C8_FailedFileUntouched ==
  [][RealBatchStep =>
       LET failed_mkdir == mkdir_failed
           failed_move == move_failed
           failed == failed_mkdir \cup failed_move
           done == classified(current, categories) \ failed
           new_moves == appended_moves
           new_errors == appended_errors
       IN  /\ \A n \in failed :
                /\ <<n>> \in DOMAIN files' /\ files'[<<n>>] = files[<<n>>]
                /\ \A i \in 1..Len(new_moves) : new_moves[i][1] # <<n>>
           /\ \A n \in failed_move :
                Cardinality({i \in 1..Len(new_errors) :
                               /\ new_errors[i].op = "move"
                               /\ new_errors[i].source = <<n>>}) = 1
           /\ Cardinality({i \in 1..Len(new_errors) :
                             new_errors[i].op = "create_directory"})
                = Cardinality(failed_mkdir)
           /\ Len(new_errors) = Cardinality(failed)
           /\ last'.stats.errors = Cardinality(failed)
           /\ \A n \in done :
                /\ Cardinality({i \in 1..Len(new_moves) : new_moves[i][1] = <<n>>}) = 1
                /\ \A i \in 1..Len(new_errors) : new_errors[i].source # <<n>>
           /\ Len(new_moves) = Cardinality(done)
           /\ last'.stats.moved = Cardinality(done)
           /\ last'.stats.skipped
                = Cardinality(eligible(current) \ classified(current, categories))]_vars

\* a batch in which one move was refused and another file was moved
C8_Witness ==
  /\ last.op = "organize" /\ ~last.dry_run /\ last.result = "returned"
  /\ last.mv_fail # {}
  /\ last.stats.errors > 0
  /\ last.stats.moved > 0

\* C9: when undo_last_operation has ended the journal is empty, whether or
\* not every file was restored; on an empty journal it restores nothing and
\* leaves the files and directories as they are.
C9_UndoConsumed ==
  [][UndoStep =>
       /\ moved_files' = <<>>
       /\ moved_files = <<>> =>
            (files' = files /\ dirs' = dirs /\ last'.successful_undos = 0)]_vars

\* an undo has ended that restored one file and failed on another
C9_Witness ==
  /\ last.op = "undo"
  /\ last.successful_undos > 0
  /\ last.attempted > last.successful_undos
  /\ moved_files = <<>>

\* C10: organize_files raises FileNotFoundError when the target path does
\* not exist or is not a directory, and then does nothing else.
C10_NotFoundError ==
  [][(OrganizeStep(TRUE) \/ OrganizeStep(FALSE)) /\ target_kind # "dir" =>
       /\ last'.result = "FileNotFoundError"
       /\ files' = files /\ dirs' = dirs /\ log' = log
       /\ moved_files' = moved_files /\ errors' = errors]_vars

\* the step is a call of clean_empty_directories
CleanStep == last'.op = "clean"

\* the category directories of the current map that exist and are empty
empty_category_dirs ==
  {d \in {<<categories[i].name>> : i \in 1..Len(categories)} :
     is_dir(current, d) /\ iterdir(current, d) = {}}

\* C11: clean_empty_directories removes exactly the directories named like
\* a category of the current map that exist and have no entry; every other
\* directory and every file stays as it is, and the call returns whether or
\* not a category directory is missing or non-empty.
C11_CleanRemovesOnlyEmpty ==
  [][CleanStep =>
       /\ dirs' = dirs \ empty_category_dirs
       /\ last'.removed = empty_category_dirs
       /\ \A d \in dirs : iterdir(current, d) # {} => d \in dirs'
       /\ \A d \in dirs :
            (\A i \in 1..Len(categories) : d # <<categories[i].name>>) => d \in dirs'
       /\ files' = files
       /\ moved_files' = moved_files /\ errors' = errors /\ log' = log
       /\ last'.result = "returned"]_vars

\* a cleanup under the custom map has removed the empty directory Images,
\* left Misc, which holds a subdirectory, and left the empty directory old,
\* which is no category
C11_Witness ==
  /\ last.op = "clean"
  /\ categories = custom_categories
  /\ last.removed = {<<Images>>}
  /\ {<<Misc>>, <<Misc, sub_dir>>, <<old_dir>>} \subseteq dirs
  /\ iterdir(current, <<old_dir>>) = {}

\* the configuration file holds no well-formed category map: it is not
\* text, not JSON, or JSON that maps a category name to something other
\* than a list of extension strings
malformed(config) ==
  \/ config.kind \in {"undecodable", "unparseable"}
  \/ config.kind = "json" /\ ~config.value_lists

\* C12: on a configuration file that is absent or holds no well-formed
\* category map the organizer is constructed, and its category map is the
\* built-in default.
C12_MalformedConfigFallsBack ==
  (last.op = "init" /\ (config_file.kind = "absent" \/ malformed(config_file))) =>
    /\ last.result = "returned"
    /\ categories = default_categories

\* C13: a non-dry-run batch that returns appends exactly one entry to the
\* log, also when there was no eligible file; the entry's count of moved
\* files and its error lines are those of this batch alone, and the earlier
\* entries stay as they were.
C13_EveryBatchLoggedOnce ==
  [][RealBatchStep =>
       /\ Len(log') = Len(log) + 1
       /\ SubSeq(log', 1, Len(log)) = log
       /\ log'[Len(log')].files_moved = last'.stats.moved
       /\ log'[Len(log')].errors = appended_errors]_vars

\* journal entry i's file is at its destination when the entry's turn
\* comes: the destination holds a file, and no entry undone before it (a
\* later entry of the journal) has the same destination and so takes that
\* file away first
at_destination(i) ==
  /\ moved_files[i][2] \in DOMAIN files
  /\ \A j \in (i + 1)..Len(moved_files) : moved_files[j][2] # moved_files[i][2]

\* C14: undo_last_operation goes through every journal entry once, the last
\* one first, moving the recorded destination back to the recorded source;
\* an entry that fails does not keep the following ones from being tried,
\* and every entry whose file is at its destination is restored.
C14_UndoBestEffortReverse ==
  [][UndoStep =>
       LET n == Len(moved_files)
           lines == last'.restores
       IN  /\ Len(lines) = n
           /\ \A k \in 1..n :
                /\ lines[k].source = moved_files[n + 1 - k][1]
                /\ lines[k].destination = moved_files[n + 1 - k][2]
                /\ lines[k].ok <=> at_destination(n + 1 - k)
           /\ last'.successful_undos = Cardinality({k \in 1..n : lines[k].ok})
           /\ \A i \in 1..n :
                at_destination(i) =>
                  /\ moved_files[i][2] \notin DOMAIN files'
                  /\ (\A j \in 1..(i - 1) : moved_files[j][1] # moved_files[i][1]) =>
                       /\ moved_files[i][1] \in DOMAIN files'
                       /\ files'[moved_files[i][1]] = files[moved_files[i][2]]]_vars

\* an undo has ended whose first attempt failed, the file being gone from
\* its destination, and whose second attempt restored a file
C14_Witness ==
  /\ last.op = "undo"
  /\ Len(last.restores) = 2
  /\ ~last.restores[1].ok
  /\ last.restores[2].ok
  /\ last.restores[2].source \in DOMAIN files

\* the step is a non-dry-run batch that was interrupted
InterruptStep == last'.op = "organize" /\ last'.result = "KeyboardInterrupt"

\* the listed files that have left their path in the step, in listing order
RECURSIVE gone_in_order(_)
gone_in_order(listing) ==
  IF listing = <<>> THEN <<>>
  ELSE IF <<Head(listing)>> \in DOMAIN files'
       THEN gone_in_order(Tail(listing))
       ELSE <<<<Head(listing)>>>> \o gone_in_order(Tail(listing))

\* the journal tells what the interrupted batch has done: its records are,
\* in listing order, the files that have left their path; each is at its
\* recorded destination; the files not yet handled are where they were
journal_tells_progress ==
  LET new_moves == appended_moves
      listing == last'.listing
  IN  /\ [i \in 1..Len(new_moves) |-> new_moves[i][1]] = gone_in_order(listing)
      /\ \A i \in 1..Len(new_moves) :
           /\ new_moves[i][2] \in DOMAIN files'
           /\ files'[new_moves[i][2]] = files[new_moves[i][1]]
           /\ new_moves[i][1] \notin DOMAIN files'
      /\ \A j \in (last'.handled + 1)..Len(listing) :
           last'.point = "between" =>
             /\ <<listing[j]>> \in DOMAIN files'
             /\ files'[<<listing[j]>>] = files[<<listing[j]>>]

\* C15 as stated: at every point at which a non-dry-run batch can be
\* interrupted, the records this batch added to the journal are, in
\* listing order, exactly the files it has moved, each at its destination
\* and gone from its source, and the files not yet handled are in place.
C15_JournalTellsProgress ==
  [][InterruptStep => journal_tells_progress]_vars

\* C15 at the points between two files only, where it holds: the one point
\* that breaks it lies inside move_file, between lines 104 and 105.
C15_JournalTellsProgressBetweenFiles ==
  [][(InterruptStep /\ last'.point = "between") => journal_tells_progress]_vars

\* the name, in lower case, is one of the five reserved names
reserved(name) ==
  lower(name) \in {<<"o","r","g","a","n","i","z","e","r","_","c","o","n","f","i","g",".","j","s","o","n">>,
                   <<"o","r","g","a","n","i","z","e","r","_","l","o","g",".","t","x","t">>,
                   <<"d","e","s","k","t","o","p",".","i","n","i">>,
                   <<"t","h","u","m","b","s",".","d","b">>,
                   <<".","d","s","_","s","t","o","r","e">>}

\* C16: an organize_files call neither moves nor counts a file of the
\* target directory whose name is reserved, whatever its case and its
\* extension, nor a file in a subdirectory: each stays where it is, gets no
\* journal record and no error record; skipped is the number of the other
\* files of the target directory that have no category and, in a
\* non-dry-run batch, moved + skipped + errors is the number of the other
\* files of the target directory.
C16_ReservedNeverOrganized ==
  [][(last'.op = "organize" /\ last'.result = "returned") =>
       LET new_moves == appended_moves
           new_errors == appended_errors
           kept == {p \in DOMAIN files : Len(p) = 2 \/ reserved(p[1])}
       IN  /\ \A p \in kept :
                /\ p \in DOMAIN files' /\ files'[p] = files[p]
                /\ \A i \in 1..Len(new_moves) : new_moves[i][1] # p
                /\ \A i \in 1..Len(new_errors) : new_errors[i].source # p
           /\ dirs \subseteq dirs'
           /\ last'.stats.skipped
                = Cardinality({p \in (DOMAIN files) \ kept :
                                 get_file_category(p[1], categories) = None})
           /\ ~last'.dry_run =>
                last'.stats.moved + last'.stats.skipped + last'.stats.errors
                  = Cardinality((DOMAIN files) \ kept)]_vars

\* a batch has moved b.TXT, skipped notes, and left organizer_log.txt,
\* Organizer_Log.TXT and Thumbs.db in the target directory and b.TXT in the
\* directory old
C16_Witness ==
  /\ last.op = "organize" /\ ~last.dry_run /\ last.result = "returned"
  /\ last.stats.moved = 1 /\ last.stats.skipped = 1 /\ last.stats.errors = 0
  /\ moved_files # <<>> /\ moved_files[Len(moved_files)][1] = <<b_TXT>>
  /\ {<<log_file_name>>, <<Organizer_Log_TXT>>, <<Thumbs_db>>, <<old_dir, b_TXT>>}
       \subseteq DOMAIN files

\* C17: a non-dry-run batch that returns counts every listed file once:
\* moved + skipped + errors is the number of regular files of the target
\* directory that have no reserved name, moved is the number of journal
\* records the batch appended and errors the number of error records it
\* appended.
C17_StatsAccountForEveryFile ==
  [][RealBatchStep =>
       /\ last'.stats.moved + last'.stats.skipped + last'.stats.errors
            = Cardinality({p \in DOMAIN files : Len(p) = 1 /\ ~reserved(p[1])})
       /\ last'.stats.moved = Len(appended_moves)
       /\ last'.stats.errors = Len(appended_errors)]_vars

\* a batch has moved one file, skipped one and failed on one, and the
\* journal and the error list hold one record each
C17_Witness ==
  /\ last.op = "organize" /\ ~last.dry_run /\ last.result = "returned"
  /\ last.stats = [moved |-> 1, skipped |-> 1, errors |-> 1]
  /\ Len(moved_files) = 1
  /\ Len(errors) = 1

\* the step is an operation of the organizer, not of the user
OrganizerStep == last'.op \in {"organize", "undo", "clean"}

\* C18: no operation of the organizer deletes or overwrites a regular
\* file: every file that exists before the operation exists after it at
\* exactly one path, its own or one in a category directory or the one it
\* was moved from, and the number of files does not decrease.
C18_NoFileLost ==
  [][OrganizerStep =>
       /\ \A p \in DOMAIN files :
            LET now == {q \in DOMAIN files' : files'[q] = files[p]}
            IN  /\ Cardinality(now) = 1
                /\ \A q \in now :
                     \/ q = p
                     \/ Len(q) = 2 /\ <<q[1]>> \in dirs'
                     \/ \E i \in 1..Len(moved_files) : moved_files[i] = <<q, p>>
       /\ Cardinality(DOMAIN files') >= Cardinality(DOMAIN files)]_vars

\* the state the step leaves, as the next operation finds it
left == [files |-> files', dirs |-> dirs', moved_files |-> moved_files',
         errors |-> errors', stats |-> zero_stats]

\* C19: after a non-dry-run batch that ended with zero errors, a second
\* non-dry-run batch that follows at once moves nothing and fails on
\* nothing, skips as many files as the first, and leaves every file and
\* directory where the first batch left it.
C19_OrganizeIdempotent ==
  [][(RealBatchStep /\ last'.stats.errors = 0) =>
       \A listing \in orderings(eligible(left)) :
       \A mv_fail \in SUBSET classified(left, categories) :
          LET second == organize_loop(left, listing, categories, FALSE, mv_fail)
          IN  /\ second.stats.moved = 0
              /\ second.stats.errors = 0
              /\ second.stats.skipped = last'.stats.skipped
              /\ second.files = files'
              /\ second.dirs = dirs'
              /\ second.moved_files = moved_files'
              /\ second.errors = errors']_vars

\* two batches have run: the first moved a file, as its log entry tells,
\* and failed on none; the second moved nothing and skipped one file
C19_Witness ==
  /\ last.op = "organize" /\ ~last.dry_run /\ last.result = "returned"
  /\ last.stats = [moved |-> 0, skipped |-> 1, errors |-> 0]
  /\ Len(log) = 2
  /\ log[1].files_moved > 0 /\ log[1].errors = <<>>
  /\ log[2].errors = <<>>

====
